---- MODULE Spec2Model ----
(***************************************************************************)
(* VideoEditor (src/components/Editor/VideoEditor/VideoEditor.py): the     *)
(* temporary-file lifecycle of one editor instance and the external tool   *)
(* invocations each pipeline operation makes.                              *)
(*                                                                         *)
(* One action per public method; an action is the whole call, from entry   *)
(* to return or raise.  What the operating system and the external tool    *)
(* decide (the name mkstemp picks, the exit code of ffmpeg/ffprobe,        *)
(* whether os.remove or shutil.rmtree raises) is drawn with \E.            *)
(***************************************************************************)
EXTENDS Integers, Sequences, FiniteSets, TLC

\* ------------------------------------------------------------------ bounds
\* names mkstemp can draw inside the workspace directory
MaxTemp == 2
\* longest list of overlay images given to insert_images
MaxImages == 2
\* longest list of inputs given to join
MaxJoin == 2

\* ------------------------------------------------------------------- paths
\* A path is a record: the directory it lies in, what it is, and a number.
temp_dir == "ws"

TempPath(i) == [dir |-> temp_dir, kind |-> "tmp", n |-> i]

TempPaths == {TempPath(i) : i \in 1..MaxTemp}

\* os.path.join(self.temp_dir, "concat.txt")
concat_list == [dir |-> temp_dir, kind |-> "concat.txt", n |-> 0]

\* output paths the caller supplies: outside the workspace, parent "outdir"
ExplicitOuts == {[dir |-> "outdir", kind |-> "out", n |-> 1]}

\* media files the caller owns and gives as inputs
Clip(i) == [dir |-> "user", kind |-> "in", n |-> i]

\* Python's None, for an absent output_path and for "no path"
None == [dir |-> "", kind |-> "None", n |-> 0]

\* every path of the file system the editor can create or delete
FsPaths == TempPaths \cup {concat_list} \cup ExplicitOuts

SeqsUpTo(S, k) == UNION {[1..m -> S] : m \in 0..k}

Range(s) == {s[i] : i \in DOMAIN s}

VARIABLES
    fs,           \* the files on disk: path -> "absent" | "file"
    dirs,         \* the directories on disk
    _own_temp,    \* self._own_temp
    _temp_files,  \* self._temp_files
    last,         \* history: the last call, its arguments and how it ended
    calls,        \* history: the external invocations of the last call, in order
    allocd        \* history: the paths _mktemp returned during the last call, in order,
                  \* each with what the path holds when the call ends

vars == <<fs, dirs, _own_temp, _temp_files, last, calls, allocd>>

\* The editor's mutable world, threaded through the statements of a method.  Inside
\* a call a file it creates is "empty" (mkstemp) or holds "data"; between calls only
\* the existence of a file is kept ("file").
State == [fs |-> fs, dirs |-> dirs, tf |-> _temp_files]

Settle(f) == [p \in DOMAIN f |-> IF f[p] = "absent" THEN "absent" ELSE "file"]

\* os.path.exists(p)
Exists(s, p) == s.fs[p] # "absent"

Write(f, p, c) == [f EXCEPT ![p] = c]

Delete(f, P) == [q \in DOMAIN f |-> IF q \in P THEN "absent" ELSE f[q]]

FilesIn(s, d) == {p \in FsPaths : p.dir = d /\ Exists(s, p)}

\* os.makedirs(os.path.dirname(output_path) or ".", exist_ok=True)
os_makedirs(s, p) == [s EXCEPT !.dirs = @ \cup {p.dir}]

\* os.remove(p), when it does not raise
os_remove(s, p) == [s EXCEPT !.fs = Delete(@, {p})]

\* a file comes into being (or is overwritten) with content c
CreateFile(s, p, c) == [s EXCEPT !.fs = Write(@, p, c)]

\* ---------------------------------------------------------------- history
\* op: the method; res: "ok" or the exception raised; out: the output path the call
\* wrote to (None when it had none yet); explicit: the caller supplied output_path;
\* paths: the list argument (join's inputs, insert_images' images); again: a
\* cleanup() directly after a cleanup(); notes: what failed and was swallowed
Call(op, res, out, explicit, paths, notes) ==
    [op |-> op, res |-> res, out |-> out, explicit |-> explicit, paths |-> paths,
     again |-> (op = "cleanup" /\ last.op = op), notes |-> notes]

\* one external invocation: the tool, the strategy of the command line, its
\* inputs, its output path and whether it exited with code 0
Invocation(tool, strategy, ins, out, ok) ==
    [tool |-> tool, strategy |-> strategy, ins |-> ins, out |-> out, ok |-> ok]

Commit(s, call, invs, al) ==
    /\ fs' = Settle(s.fs)
    /\ dirs' = s.dirs
    /\ _temp_files' = s.tf
    /\ last' = call
    /\ calls' = invs
    /\ allocd' = [i \in DOMAIN al |-> [path |-> al[i], holds |-> s.fs[al[i]]]]
    /\ UNCHANGED _own_temp

\* -------------------------------------------------------------- __init__
\* Before VideoEditor(...) is called: no editor, no workspace directory.  The
\* attributes have no value yet; _own_temp and _temp_files stand at FALSE and {}.
Init ==
    /\ _own_temp = FALSE
    /\ fs = [p \in FsPaths |-> "absent"]
    /\ dirs = {}
    /\ _temp_files = {}
    /\ last = [op |-> "start", res |-> "ok", out |-> None, explicit |-> FALSE,
               paths |-> <<>>, again |-> FALSE, notes |-> {}]
    /\ calls = <<>>
    /\ allocd = <<>>

\* the external binaries shutil.which can find on PATH
Binaries == {"ffmpeg", "ffprobe"}

\* a check that would raise only when both binaries are missing
_ensure_ffmpeg_both(found) ==
    IF "ffmpeg" \notin found /\ "ffprobe" \notin found THEN "RuntimeError" ELSE "ok"

\* _ensure_ffmpeg, given the binaries found on PATH
_ensure_ffmpeg(found) ==
    IF "ffmpeg" \notin found \/ "ffprobe" \notin found THEN "RuntimeError" ELSE "ok"

\* VideoEditor(temp_dir): given tells whether the caller supplied temp_dir.  The
\* directory is made by os.makedirs(temp_dir, exist_ok=True) or by mkdtemp.
__init__(given, found) ==
    /\ last.op = "start"
    /\ last' = Call("__init__", _ensure_ffmpeg(found), None, FALSE, <<>>, {})
    /\ IF _ensure_ffmpeg(found) # "ok"
       THEN UNCHANGED <<fs, dirs, _own_temp, _temp_files, calls, allocd>>
       ELSE /\ dirs' = dirs \cup {temp_dir}
            /\ _own_temp' = ~given
            /\ _temp_files' = {}
            /\ UNCHANGED <<fs, calls, allocd>>

\* an editor object exists: the constructor returned
Alive == last.op # "start" /\ ~(last.op = "__init__" /\ last.res # "ok")

\* ------------------------------------------------------------ subprocess
\* How an external invocation can end: exit code 0 with the output written, or
\* non-zero.  What a failed ffmpeg leaves at its output path is not modelled: the
\* path is left as it was.
RunOutcomes == {"ok", "fail"}

\* _run(cmd) for an ffmpeg command writing to out: the effect on the disk
_run(s, out, oc) == IF oc = "fail" THEN s ELSE CreateFile(s, out, "data")

\* a _run that would not look at the exit code
Raised_ignored(oc) == "ok"

\* what _run raises: RuntimeError when the exit code is not 0
Raised(oc) == IF oc = "ok" THEN "ok" ELSE "RuntimeError"

\* ------------------------------------------------------ handle temp files
\* a mkstemp without O_EXCL, which could hand out a name already in use
MkstempAnyName(s) == TempPaths

\* tempfile.mkstemp(suffix, dir=self.temp_dir) opens with O_EXCL: the name it
\* returns is one that does not exist in the directory
MkstempChoices(s) == {p \in TempPaths : ~Exists(s, p)}

\* a _mktemp that would start the tracked set anew with each allocation
_mktemp_reset(s, p) == [CreateFile(s, p, "empty") EXCEPT !.tf = {p}]

\* _mktemp, given the name mkstemp drew
_mktemp(s, p) == [CreateFile(s, p, "empty") EXCEPT !.tf = @ \cup {p}]

\* a mkstemp that would never raise
AllocFails_never(s, output_path) == FALSE

\* mkstemp raises FileNotFoundError when the workspace directory is gone
AllocFails(s, output_path) == output_path = None /\ temp_dir \notin s.dirs

\* "if output_path is None: output_path = self._mktemp(...) else: os.makedirs(...)"
OutputChoices(s, output_path) ==
    IF output_path = None THEN MkstempChoices(s) ELSE {output_path}

\* a preparation that would not register the temp file it makes
PrepareOutput_untracked(s, output_path, p) ==
    IF output_path = None THEN CreateFile(s, p, "empty") ELSE os_makedirs(s, p)

PrepareOutput(s, output_path, p) ==
    IF output_path = None THEN _mktemp(s, p) ELSE os_makedirs(s, p)

Allocated(output_path, p) == IF output_path = None THEN <<p>> ELSE <<>>

\* a loop body that deletes the file and leaves the tracked set alone
remove_one_keep(s, p, F) ==
    IF Exists(s, p) /\ p \notin F THEN os_remove(s, p) ELSE s

\* the body of remove_temp's loop for one path; F: the paths whose os.remove raises
remove_one(s, p, F) ==
    IF Exists(s, p) /\ p \in F
    THEN s
    ELSE LET s1 == IF Exists(s, p) THEN os_remove(s, p) ELSE s
         IN  [s1 EXCEPT !.tf = @ \ {p}]

\* a loop that would stop after the first path
remove_loop_first(s, paths, F) ==
    IF Len(paths) = 0 THEN s ELSE remove_one(s, Head(paths), F)

RECURSIVE remove_loop(_, _, _)
remove_loop(s, paths, F) ==
    IF Len(paths) = 0 THEN s
    ELSE remove_loop(remove_one(s, Head(paths), F), Tail(paths), F)

\* the lists remove_temp is given: no path, one path, two paths (twice the same too)
RemoveLists == {<<>>} \cup {<<p>> : p \in FsPaths} \cup {<<p, q>> : p, q \in FsPaths}

\* "if isinstance(paths, str): paths = [paths]"
AsList(isstr, paths) == IF isstr THEN <<paths>> ELSE paths

\* remove_temp(paths): paths is one path (isstr) or a list of paths
remove_temp(isstr, paths, F) ==
    LET s0 == State
        s1 == remove_loop(s0, AsList(isstr, paths), F)
        failed == {p \in Range(AsList(isstr, paths)) : Exists(s0, p) /\ p \in F}
    IN  Commit(s1, Call("remove_temp", "ok", None, FALSE, <<>>,
                        IF failed = {} THEN {} ELSE {"remove_failed"}), <<>>, <<>>)

\* a loop that would discard a path only when its file is gone
cleanup_files_strict(s, F) ==
    LET gone == {p \in s.tf : Exists(s, p) /\ p \notin F}
    IN  [s EXCEPT !.fs = Delete(@, gone), !.tf = @ \ {p \in s.tf : p \notin F \/ ~Exists(s, p)}]

\* cleanup's loop over list(self._temp_files); F: the paths whose os.remove raises
cleanup_files(s, F) ==
    LET gone == {p \in s.tf : Exists(s, p) /\ p \notin F}
    IN  [s EXCEPT !.fs = Delete(@, gone), !.tf = {}]

\* shutil.rmtree(self.temp_dir): K is what is left of the directory's files when
\* it raises; when it does not raise the directory and all in it are gone
rmtree(s, ok, K) ==
    LET gone == IF ok THEN FilesIn(s, temp_dir) ELSE FilesIn(s, temp_dir) \ K
    IN  [s EXCEPT !.fs = Delete(@, gone),
                  !.dirs = IF ok THEN @ \ {temp_dir} ELSE @]

\* a test that would ignore who made the directory
owns_tree_any(s) == temp_dir \in s.dirs

\* "if self._own_temp and os.path.isdir(self.temp_dir)"
owns_tree(s) == _own_temp /\ temp_dir \in s.dirs

cleanup(F, ok, K) ==
    LET s0 == State
        s1 == cleanup_files(s0, F)
        tree == owns_tree(s1)
        s2 == IF tree THEN rmtree(s1, ok, K) ELSE s1
        notes == (IF \E p \in s0.tf : Exists(s0, p) /\ p \in F THEN {"remove_failed"} ELSE {})
                    \cup (IF tree /\ ~ok THEN {"rmtree_failed"} ELSE {})
    IN  Commit(s2, Call("cleanup", "ok", None, FALSE, <<>>, notes), <<>>, <<>>)

\* ------------------------------------------------------- encoder selection
\* The machine a call runs on: whether torch.cuda.is_available() holds, and what
\* os.cpu_count() returns, 0 standing for None.
Hardware == {[cuda |-> FALSE, cpu_count |-> 0], [cuda |-> TRUE, cpu_count |-> 2]}

\* what a command line gives after -c:v: the codec and the parameters that follow
\* it (<<>>: none), with the number of times the call asked _choose_encoder for them
Encoding(codec, params, selects) == [codec |-> codec, params |-> params, selects |-> selects]

\* "-c:v copy", or "-c copy"
StreamCopy == Encoding("copy", <<>>, 0)

\* max(1, os.cpu_count() or 1)
threads(cpu_count) ==
    LET n == IF cpu_count = 0 THEN 1 ELSE cpu_count
    IN  IF n >= 1 THEN n ELSE 1

\* _choose_encoder(), called once: both of its branches return libx264 with
\* -preset fast -crf 23 -threads <n>
_choose_encoder(hw) ==
    IF hw.cuda
    THEN Encoding("libx264", <<[preset |-> "fast", crf |-> 23,
                                threads |-> threads(hw.cpu_count)]>>, 1)
    ELSE Encoding("libx264", <<[preset |-> "fast", crf |-> 23,
                                threads |-> threads(hw.cpu_count)]>>, 1)

\* an ffmpeg invocation with its encoding
Encoded(cmd, enc) == [x \in DOMAIN cmd \cup {"enc"} |-> IF x = "enc" THEN enc ELSE cmd[x]]

\* -------------------------------------------------------- core operations
\* codec = ["-c", "copy"] if not reencode else ["-c:v", "libx264", "-c:a", "aac"]
cut_codec(reencode) == IF reencode THEN Encoding("libx264", <<>>, 0) ELSE StreamCopy

cut(input_path, output_path, reencode) ==
    LET s0 == State
        explicit == output_path # None
    IN  \/ /\ AllocFails(s0, output_path)
           /\ Commit(s0, Call("cut", "OSError", None, explicit, <<>>, {}), <<>>, <<>>)
        \/ /\ ~AllocFails(s0, output_path)
           /\ \E p \in OutputChoices(s0, output_path), oc \in RunOutcomes :
                Commit(_run(PrepareOutput(s0, output_path, p), p, oc),
                       Call("cut", Raised(oc), p, explicit, <<>>, {}),
                       <<Encoded(Invocation("ffmpeg", "cut", <<input_path>>, p, oc = "ok"),
                                 cut_codec(reencode))>>,
                       Allocated(output_path, p))

\* ------------------------------------------------------------ media, time
\* A time is a whole number of quarter milliseconds: 4000 is one second, 1 is
\* 0.00025 s.  A media file of the caller carries the duration ffprobe reports
\* for it, 0 when it reports none.
MediaFile(kind, d) == [dir |-> "user", kind |-> kind, n |-> 1, duration |-> d]

\* n/d rounded to the nearest whole number, a tie to the even one: Python's
\* round() and the rounding of the format "{:.3f}"
RoundHalfEven(n, d) ==
    LET q == n \div d
        r == n % d
    IN  IF 2 * r < d THEN q
        ELSE IF 2 * r > d THEN q + 1
        ELSE IF q % 2 = 0 THEN q ELSE q + 1

\* a delay that would cut the fraction of a millisecond off
delay_ms_trunc(start_time) == start_time \div 4

\* delay_ms = int(round(start_time * 1000)), in milliseconds
delay_ms(start_time) == RoundHalfEven(start_time, 4)

\* f"{video_duration:.3f}": seconds with three decimals, here as milliseconds
format_3f(t) == RoundHalfEven(t, 4)

\* get_duration(path): "return float(fmt['duration'])", or 0.0
get_duration(path) == path.duration

\* a branch test that would keep the audio when it starts exactly at the end
AudioStrategyLate(start_time, video_duration, audio_duration) ==
    IF start_time > video_duration THEN "noaudio"
    ELSE IF delay_ms(start_time) > 0 \/ audio_duration > video_duration - start_time
         THEN "filter"
         ELSE "fast"

\* the branch replace_audio takes
AudioStrategy(start_time, video_duration, audio_duration) ==
    IF start_time >= video_duration THEN "noaudio"
    ELSE IF delay_ms(start_time) > 0 \/ audio_duration > video_duration - start_time
         THEN "filter"
         ELSE "fast"

\* a filter of a filter graph, with its arguments
Filter(name, args) == [name |-> name, args |-> args]

\* the command line replace_audio builds on each branch: the -map arguments,
\* whether -an is given, and the chain of -filter_complex (empty: no filter graph)
AudioCmd(strategy, start_time, video_duration) ==
    IF strategy = "noaudio"
    THEN [maps |-> <<"0:v">>, an |-> TRUE, filter |-> <<>>]
    ELSE IF strategy = "fast"
    THEN [maps |-> <<"0:v:0", "1:a:0">>, an |-> FALSE, filter |-> <<>>]
    ELSE [maps |-> <<"0:v:0", "[aud]">>, an |-> FALSE,
          filter |-> <<Filter("adelay", <<delay_ms(start_time), 1>>),
                       Filter("atrim", <<0, format_3f(video_duration)>>),
                       Filter("asetpts", <<>>)>>]

\* an ffmpeg invocation together with the options of its command line
Command(strategy, ins, out, ok, opts) ==
    [tool |-> "ffmpeg", strategy |-> strategy, ins |-> ins, out |-> out, ok |-> ok,
     opts |-> opts]

\* a _probe that would run ffprobe once for the format and once for the streams
_probe_twice(path, ok) ==
    <<Invocation("ffprobe", "probe", <<path>>, None, ok),
      Invocation("ffprobe", "probe", <<path>>, None, ok)>>

\* the invocations _probe(path) makes: one ffprobe through _run
_probe(path, ok) == <<Invocation("ffprobe", "probe", <<path>>, None, ok)>>

replace_audio(input_path, audio_path, output_path, start_time) ==
    LET s0 == State
        explicit == output_path # None
        rec(res, p) == Call("replace_audio", res, p, explicit, <<>>, {})
    IN  \/ /\ AllocFails(s0, output_path)
           /\ Commit(s0, rec("OSError", None), <<>>, <<>>)
        \/ /\ ~AllocFails(s0, output_path)
           /\ \E p \in OutputChoices(s0, output_path) :
                LET s1 == PrepareOutput(s0, output_path, p)
                    al == Allocated(output_path, p)
                    video_duration == get_duration(input_path)
                    audio_duration == get_duration(audio_path)
                    strategy == AudioStrategy(start_time, video_duration, audio_duration)
                    ins == IF strategy = "noaudio" THEN <<input_path>>
                           ELSE <<input_path, audio_path>>
                IN  \* get_duration(input_path): ffprobe exits non-zero
                    \/ Commit(s1, rec("RuntimeError", p), _probe(input_path, FALSE), al)
                    \* get_duration(audio_path): ffprobe exits non-zero
                    \/ Commit(s1, rec("RuntimeError", p),
                              _probe(input_path, TRUE) \o _probe(audio_path, FALSE), al)
                    \/ \E oc \in RunOutcomes :
                         LET s2 == _run(s1, p, oc)
                             \* line 216: the no-audio branch registers the output path
                             s3 == IF strategy = "noaudio" /\ oc = "ok"
                                   THEN [s2 EXCEPT !.tf = @ \cup {p}] ELSE s2
                         IN  Commit(s3, rec(Raised(oc), p),
                                    _probe(input_path, TRUE) \o _probe(audio_path, TRUE)
                                      \o <<Encoded(Command(strategy, ins, p, oc = "ok",
                                                           AudioCmd(strategy, start_time,
                                                                    video_duration)),
                                                   StreamCopy)>>, al)

\* the lists join is given: the caller's first n clips, in order
JoinLists == {[i \in 1..n |-> Clip(i)] : n \in 0..MaxJoin}

\* a check that would let a single input through
TooFew1(inputs) == Len(inputs) < 1

\* a handler that would leave reencode as it was
fallback_keep(reencode) == reencode

\* "if len(inputs) < 2: raise ValueError"
TooFew(inputs) == Len(inputs) < 2

\* the handler of "except RuntimeError": the value it gives reencode
fallback(reencode) == TRUE

\* join's stream-copy attempt (lines 288-311) and its re-encode path (313-336), once
\* the output path p is prepared in s1
join_body(s1, inputs, p, explicit, al, reencode) ==
    LET copy(ok) == Encoded(Invocation("ffmpeg", "copy_concat", inputs, p, ok), StreamCopy)
        reenc(ok, hw) == Encoded(Invocation("ffmpeg", "filter_concat", inputs, p, ok),
                                 _choose_encoder(hw))
        rec(res) == Call("join", res, p, explicit, inputs, {})
        \* "with open(concat_list, 'w') as f": the list file is written
        s2 == CreateFile(s1, concat_list, "data")
        \* the stream copy exits 0 and line 305 registers the output path
        s3 == [_run(s2, p, "ok") EXCEPT !.tf = @ \cup {p}]
    IN  \/ /\ reencode
           /\ \E oc \in RunOutcomes, hw \in Hardware :
                Commit(_run(s1, p, oc), rec(Raised(oc)), <<reenc(oc = "ok", hw)>>, al)
        \* open() raises FileNotFoundError: the workspace directory is gone
        \/ /\ ~reencode /\ temp_dir \notin s1.dirs
           /\ Commit(s1, rec("OSError"), <<>>, al)
        \/ /\ ~reencode /\ temp_dir \in s1.dirs
           /\ Commit(os_remove(s3, concat_list), rec("ok"), <<copy(TRUE)>>, al)
        \* os.remove(concat_list) raises: no RuntimeError, so it leaves join
        \/ /\ ~reencode /\ temp_dir \in s1.dirs
           /\ Commit(s3, rec("OSError"), <<copy(TRUE)>>, al)
        \* the stream copy exits non-zero: fall back to the re-encode
        \/ /\ ~reencode /\ temp_dir \in s1.dirs
           /\ \E oc1 \in RunOutcomes \ {"ok"} :
                LET s4 == _run(s2, p, oc1)
                IN  \* "if reencode:" after the handler
                    IF fallback(reencode)
                    THEN \E oc2 \in RunOutcomes, hw \in Hardware :
                           Commit(_run(s4, p, oc2), rec(Raised(oc2)),
                                  <<copy(FALSE), reenc(oc2 = "ok", hw)>>, al)
                    ELSE Commit(s4, rec("ok"), <<copy(FALSE)>>, al)

join(inputs, output_path, reencode) ==
    LET s0 == State
        explicit == output_path # None
    IN  \/ /\ TooFew(inputs)
           /\ Commit(s0, Call("join", "ValueError", None, explicit, inputs, {}), <<>>, <<>>)
        \/ /\ ~TooFew(inputs)
           /\ AllocFails(s0, output_path)
           /\ Commit(s0, Call("join", "OSError", None, explicit, inputs, {}), <<>>, <<>>)
        \/ /\ ~TooFew(inputs)
           /\ ~AllocFails(s0, output_path)
           /\ \E p \in OutputChoices(s0, output_path) :
                join_body(PrepareOutput(s0, output_path, p), inputs, p, explicit,
                          Allocated(output_path, p), reencode)

\* an image file the caller owns
Picture(i) == [dir |-> "user", kind |-> "png", n |-> i]

\* a decoded image in memory (PIL.Image): no path, it has a save method
Decoded == [dir |-> "", kind |-> "PIL.Image", n |-> 0]

\* an entry of insert_images' list: {"image": ..., "start": ..., "end": ...}
Overlay(image, start, end) == [image |-> image, start |-> start, end |-> end]

\* what insert_images is given: images shown over the first second, each a path
\* of the caller or a decoded image
OverlayArgs == {Overlay(Picture(1), 0, 4000), Overlay(Decoded, 0, 4000)}

ImageLists == SeqsUpTo(OverlayArgs, MaxImages)

\* "if hasattr(image, 'save')": the places of the decoded images in the list
Pils(images) == {i \in DOMAIN images : images[i].image.kind = "PIL.Image"}

\* image_path for each entry, in order: the temp file of a decoded image (the
\* next of temp_images), the caller's path otherwise
RECURSIVE image_paths(_, _)
image_paths(images, temp_images) ==
    IF Len(images) = 0 THEN <<>>
    ELSE IF Head(images).image.kind = "PIL.Image"
         THEN <<Head(temp_images)>> \o image_paths(Tail(images), Tail(temp_images))
         ELSE <<Head(images).image>> \o image_paths(Tail(images), temp_images)

\* a label of a filter graph: the video stream of an input ("0:v", "1:v") or the
\* named output of an overlay stage ("v1", "v2")
StreamV(i) == [kind |-> "input", n |-> i]

OutLabel(k) == [kind |-> "v", n |-> k]

\* a chain that would lay every image over the base video
prev_label_base(k) == StreamV(0)

\* prev_label when the loop reaches the k-th image: "0:v" at first, then the
\* out_label of the stage before
prev_label(k) == IF k = 1 THEN StreamV(0) ELSE OutLabel(k - 1)

\* the filter graph insert_images builds, one overlay stage for each image:
\* "[prev_label][k:v]overlay=x:y:enable='between(t,start,end)'[vk]", and the
\* label given to -map, which is prev_label after the loop
OverlayCmd(images) ==
    [filter |-> [k \in DOMAIN images |->
                    [name |-> "overlay", ins |-> <<prev_label(k), StreamV(k)>>,
                     enable |-> <<images[k].start, images[k].end>>,
                     out |-> OutLabel(k)]],
     maps |-> <<prev_label(Len(images) + 1)>>]

\* an insert_images that would leave its temp images where they are
clean_temp_images_skip(s, temp_images, F) == s

\* "self.remove_temp(temp_images)"; F: the paths whose os.remove raises
clean_temp_images(s, temp_images, F) == remove_loop(s, temp_images, F)

\* the loop of insert_images over the decoded images: names[j] is the name mkstemp
\* draws for the j-th of them; image.save writes the file
RECURSIVE materialize(_, _)
materialize(s, names) ==
    IF Len(names) = 0 THEN s
    ELSE materialize(CreateFile(_mktemp(s, Head(names)), Head(names), "data"), Tail(names))

RECURSIVE ValidDraws(_, _)
ValidDraws(s, names) ==
    IF Len(names) = 0 THEN TRUE
    ELSE /\ Head(names) \in MkstempChoices(s)
         /\ ValidDraws(_mktemp(s, Head(names)), Tail(names))

insert_images(input_path, images, output_path) ==
    LET s0 == State
        explicit == output_path # None
        k == Cardinality(Pils(images))
        rec(res, p, notes) == Call("insert_images", res, p, explicit, images, notes)
    IN  \/ /\ AllocFails(s0, output_path)
           /\ Commit(s0, rec("OSError", None, {}), <<>>, <<>>)
        \/ /\ ~AllocFails(s0, output_path)
           /\ \E p \in OutputChoices(s0, output_path) :
                LET s1 == PrepareOutput(s0, output_path, p)
                    al == Allocated(output_path, p)
                    inv(ok, temp_images, hw) ==
                        Encoded(Command("overlay",
                                        <<input_path>> \o image_paths(images, temp_images),
                                        p, ok, OverlayCmd(images)),
                                _choose_encoder(hw))
                IN  \* _mktemp(".png") raises: the workspace directory is gone
                    \/ /\ k > 0 /\ temp_dir \notin s1.dirs
                       /\ Commit(s1, rec("OSError", p, {}), <<>>, al)
                    \/ /\ (k = 0 \/ temp_dir \in s1.dirs)
                       /\ \E temp_images \in [1..k -> TempPaths] :
                            /\ ValidDraws(s1, temp_images)
                            /\ LET s2 == materialize(s1, temp_images)
                               IN  \/ \E oc \in RunOutcomes \ {"ok"}, hw \in Hardware :
                                        Commit(_run(s2, p, oc), rec("RuntimeError", p, {}),
                                               <<inv(FALSE, temp_images, hw)>>,
                                               al \o temp_images)
                                   \* line 422: self.remove_temp(temp_images)
                                   \/ \E F \in SUBSET Range(temp_images), hw \in Hardware :
                                        Commit(clean_temp_images(_run(s2, p, "ok"), temp_images, F),
                                               rec("ok", p, IF F = {} THEN {}
                                                            ELSE {"remove_failed"}),
                                               <<inv(TRUE, temp_images, hw)>>,
                                               al \o temp_images)

\* a caption: its text is shown from start to end
Caption(start, end) == [start |-> start, end |-> end]

\* a chain that would draw the first caption only
CaptionCmd_first(captions) ==
    [filter |-> [i \in DOMAIN captions \cap {1} |->
                    Filter("drawtext", <<captions[i].start, captions[i].end>>)]]

\* the drawtext chain insert_captions builds: one filter for each caption, in
\* order, with enable='between(t,start,end)'
CaptionCmd(captions) ==
    [filter |-> [i \in DOMAIN captions |->
                    Filter("drawtext", <<captions[i].start, captions[i].end>>)]]

insert_captions(input_path, captions, output_path) ==
    LET s0 == State
        explicit == output_path # None
    IN  \/ /\ AllocFails(s0, output_path)
           /\ Commit(s0, Call("insert_captions", "OSError", None, explicit, <<>>, {}), <<>>, <<>>)
        \/ /\ ~AllocFails(s0, output_path)
           /\ \E p \in OutputChoices(s0, output_path), oc \in RunOutcomes, hw \in Hardware :
                Commit(_run(PrepareOutput(s0, output_path, p), p, oc),
                       Call("insert_captions", Raised(oc), p, explicit, <<>>, {}),
                       <<Encoded(Command("drawtext", <<input_path>>, p, oc = "ok",
                                         CaptionCmd(captions)),
                                 _choose_encoder(hw))>>,
                       Allocated(output_path, p))

\* change_ratio's arguments
Ratios == {"vertical", "widescreen", "ultrawide"}

RatioArgs == Ratios \cup {"square"}

\* mode, and with mode "pad" the style: None, {"type": "color", "color": c} for c
\* "black", a valid "#RRGGBB", another string, or no string at all; {"type": "blur"};
\* {"type": "image"}
ModeStyleArgs ==
    {<<"crop", "None">>, <<"stretch", "None">>}
        \cup {<<"pad", st>> : st \in {"None", "color:black", "color:#1e8c1b", "color:red",
                                      "color:7", "blur", "image"}}

\* lines 636-676: the mode and style checks raise ValueError
StyleInvalid(mode, style) ==
    \/ mode \notin {"pad", "crop"}
    \/ mode = "pad" /\ style \in {"color:red", "color:7", "image"}

\* "if width is None: width = 1080"
DefaultWidth == 1080

\* the width argument: <<>> for None, <<w>> for the number w
target_w(width) == IF Len(width) = 0 THEN DefaultWidth ELSE width[1]

\* target_ratio
RatioPair(ratio) ==
    CASE ratio = "vertical" -> <<9, 16>>
      [] ratio = "widescreen" -> <<16, 9>>
      [] ratio = "ultrawide" -> <<21, 9>>

\* a height that would be rounded to the nearest whole number
target_h_round(width, ratio) ==
    RoundHalfEven(target_w(width) * RatioPair(ratio)[2], RatioPair(ratio)[1])

\* target_h = int(width * target_ratio[1] / target_ratio[0])
target_h(width, ratio) == (target_w(width) * RatioPair(ratio)[2]) \div RatioPair(ratio)[1]

\* an adjustment that would leave an odd number as it is
adjusted_keep(x) == x

\* "x if x % 2 == 0 else x - 1"
adjusted(x) == IF x % 2 = 0 THEN x ELSE x - 1

\* the filter graph change_ratio builds (vf) and whether it goes to -filter_complex
RatioCmd(mode, style, w, h) ==
    IF mode = "crop"
    THEN [complex |-> FALSE,
          filter |-> <<Filter("scale", <<w, h>>), Filter("crop", <<w, h>>)>>]
    ELSE IF style = "blur"
    THEN [complex |-> TRUE,
          filter |-> <<Filter("scale", <<w, h>>), Filter("crop", <<w, h>>),
                       Filter("boxblur", <<20, 10>>), Filter("scale", <<w, h>>),
                       Filter("overlay", <<>>)>>]
    ELSE IF w < h
    THEN [complex |-> FALSE,
          filter |-> <<Filter("scale", <<w, h>>), Filter("pad", <<w, h>>)>>]
    ELSE [complex |-> FALSE,
          filter |-> <<Filter("scale", <<adjusted(w), adjusted(h)>>),
                       Filter("pad", <<adjusted(w), adjusted(h)>>)>>]

change_ratio(input_path, ratio, mode, style, output_path, width, reencode) ==
    LET s0 == State
        explicit == output_path # None
        rec(res, p) == Call("change_ratio", res, p, explicit, <<>>, {})
    IN  \/ /\ ratio \notin Ratios
           /\ Commit(s0, rec("ValueError", None), <<>>, <<>>)
        \/ /\ ratio \in Ratios
           /\ AllocFails(s0, output_path)
           /\ Commit(s0, rec("OSError", None), <<>>, <<>>)
        \/ /\ ratio \in Ratios
           /\ ~AllocFails(s0, output_path)
           /\ \E p \in OutputChoices(s0, output_path) :
                LET s1 == PrepareOutput(s0, output_path, p)
                    al == Allocated(output_path, p)
                IN  \/ /\ StyleInvalid(mode, style)
                       /\ Commit(s1, rec("ValueError", p), <<>>, al)
                    \/ /\ ~StyleInvalid(mode, style)
                       /\ \E oc \in RunOutcomes, hw \in Hardware :
                            Commit(_run(s1, p, oc), rec(Raised(oc), p),
                                   \* codec_name, codec_params (line 632)
                                   <<Encoded(Command(mode, <<input_path>>, p, oc = "ok",
                                                     RatioCmd(mode, style, target_w(width),
                                                              target_h(width, ratio))),
                                             IF reencode THEN _choose_encoder(hw)
                                             ELSE StreamCopy)>>,
                                   al)

\* ------------------------------------------------------------ speed change
\* A speed factor and a tempo stage are positive fractions <<numerator, denominator>>.
MaxSpeed == 9

SpeedArgs == {<<n, d>> : n, d \in 1..MaxSpeed}

\* a chain that would hand the requested factor to atempo as it is
tempo_chain_single(f) == IF f[1] = f[2] THEN <<>> ELSE <<f>>

\* The decomposition of the speed change filter: stages of 2 while the factor is
\* above 2, stages of 1/2 while it is below 1/2, then the residual stage, which is
\* left out when it is 1.
RECURSIVE tempo_chain(_)
tempo_chain(f) ==
    IF f[1] > 2 * f[2] THEN <<(<<2, 1>>)>> \o tempo_chain(<<f[1], 2 * f[2]>>)
    ELSE IF 2 * f[1] < f[2] THEN <<(<<1, 2>>)>> \o tempo_chain(<<2 * f[1], f[2]>>)
    ELSE IF f[1] = f[2] THEN <<>>
    ELSE <<f>>

\* the speed change filter: setpts=PTS/<speed> for the video, the atempo chain for
\* the audio (an empty chain: no audio filter)
SpeedCmd(speed) ==
    [setpts |-> speed,
     filter |-> [i \in DOMAIN tempo_chain(speed) |->
                    Filter("atempo", <<tempo_chain(speed)[i]>>)]]

\* change_speed_segment: of the operation, the invocation that re-encodes the "mid"
\* part with the speed filter; its segment files and its stitching are left out
change_speed_segment(input_path, speed) ==
    \E oc \in RunOutcomes, hw \in Hardware :
        Commit(State, Call("change_speed_segment", Raised(oc), None, FALSE, <<>>, {}),
               <<Encoded(Command("speed", <<input_path>>, None, oc = "ok", SpeedCmd(speed)),
                         _choose_encoder(hw))>>, <<>>)

\* ------------------------------------------------------------------- next
OutArgs == {None} \cup ExplicitOuts

\* the video given to the single-input operations
video == Clip(1)

\* what replace_audio is given: a video of unknown duration or of one second, an
\* audio file of one or two seconds, a start at zero or at one second
VideoArgs == {MediaFile("in", d) : d \in {0, 4000}}

AudioArgs == {MediaFile("audio", d) : d \in {4000, 8000}}

StartArgs == {0, 4000}

\* what insert_captions is given: one caption over the first second
CaptionArgs == {<<Caption(0, 4000)>>}

\* what change_ratio is given for width: None
WidthArgs == {<<>>}

\* what change_ratio is given for reencode: its default
ReencodeArgs == {TRUE}

\* what change_ratio is given for mode and style: one of each kind the code tells
\* apart (crop, an unknown mode, the default pad, a bad color, a blur)
ModeStyleNarrow ==
    {<<"crop", "None">>, <<"stretch", "None">>, <<"pad", "None">>, <<"pad", "color:red">>,
     <<"pad", "blur">>}

Next ==
    \/ \E given \in BOOLEAN, found \in SUBSET Binaries : __init__(given, found)
    \/ Alive /\ \E o \in OutArgs, re \in BOOLEAN : cut(video, o, re)
    \/ Alive /\ \E v \in VideoArgs, a \in AudioArgs, o \in OutArgs, st \in StartArgs :
                   replace_audio(v, a, o, st)
    \/ Alive /\ \E l \in JoinLists, o \in OutArgs, re \in BOOLEAN : join(l, o, re)
    \/ Alive /\ \E im \in ImageLists, o \in OutArgs : insert_images(video, im, o)
    \/ Alive /\ \E c \in CaptionArgs, o \in OutArgs : insert_captions(video, c, o)
    \/ Alive /\ \E r \in RatioArgs, ms \in ModeStyleNarrow, o \in OutArgs, w \in WidthArgs,
                   re \in ReencodeArgs : change_ratio(video, r, ms[1], ms[2], o, w, re)
    \/ Alive /\ \E p \in FsPaths :
                   \E F \in SUBSET {q \in {p} : Exists(State, q)} : remove_temp(TRUE, p, F)
    \/ Alive /\ \E l \in RemoveLists :
                   \E F \in SUBSET {q \in Range(l) : Exists(State, q)} : remove_temp(FALSE, l, F)
    \/ Alive /\ \E F \in SUBSET {p \in _temp_files : Exists(State, p)} :
                   \/ cleanup(F, TRUE, {})
                   \/ /\ owns_tree(State)
                      /\ \E K \in SUBSET FilesIn(cleanup_files(State, F), temp_dir) :
                             cleanup(F, FALSE, K)

Spec == Init /\ [][Next]_vars

\* ------------------------------------------------- command construction
\* The operations whose command line depends on their arguments, over wider
\* arguments and with the output path given by the caller.
\* videos with no duration reported, of 1 s and of 1.00075 s; audio of 1 s and 2 s
VideoArgsWide == {MediaFile("in", d) : d \in {0, 4000, 4003}}

AudioArgsWide == {MediaFile("audio", d) : d \in {4000, 8000}}

\* starts at -1 s, 0, 0.25 ms, 0.75 ms and 1 s
StartArgsWide == {0 - 4000, 0, 1, 3, 4000}

\* one or two captions; windows that end after, at and before their start
CaptionArgsWide ==
    LET caps == {Caption(0, 4000), Caption(4000, 4000), Caption(8000, 4000)}
    IN  {<<c>> : c \in caps} \cup {<<c, d>> : c, d \in caps}

WidthArgsWide == {<<>>, <<7>>, <<16>>, <<21>>}

\* overlays with windows of their own: a path over the first second, a decoded
\* image over the second one, a decoded image over the first two
OverlayArgsWide ==
    {Overlay(Picture(1), 0, 4000), Overlay(Decoded, 4000, 8000), Overlay(Decoded, 0, 8000)}

ImageListsWide == SeqsUpTo(OverlayArgsWide, MaxImages)

\* the editor has just been constructed
Fresh == last.op = "__init__" /\ last.res = "ok"

\* one call on a fresh editor
NextCommands ==
    \/ \E given \in BOOLEAN, found \in SUBSET Binaries : __init__(given, found)
    \/ Fresh /\ \E v \in VideoArgsWide, a \in AudioArgsWide, o \in ExplicitOuts,
                   st \in StartArgsWide : replace_audio(v, a, o, st)
    \/ Fresh /\ \E c \in CaptionArgsWide, o \in ExplicitOuts : insert_captions(video, c, o)
    \/ Fresh /\ \E r \in RatioArgs, ms \in ModeStyleArgs, o \in ExplicitOuts,
                   w \in WidthArgsWide, re \in BOOLEAN :
                   change_ratio(video, r, ms[1], ms[2], o, w, re)
    \/ Fresh /\ \E f \in SpeedArgs : change_speed_segment(video, f)
    \/ Fresh /\ \E im \in ImageListsWide, o \in ExplicitOuts : insert_images(video, im, o)

SpecCommands == Init /\ [][NextCommands]_vars

\* --------------------------------------------------------------- removal
\* The calls that put files on disk for remove_temp to find (a temp or an explicit
\* output of cut, the tracked or untracked output and the list file of join),
\* and remove_temp itself.  Both are called with their default reencode=False.
NextRemoval ==
    \/ \E given \in BOOLEAN, found \in SUBSET Binaries : __init__(given, found)
    \/ Alive /\ \E o \in OutArgs : cut(video, o, FALSE)
    \/ Alive /\ \E l \in JoinLists, o \in OutArgs : join(l, o, FALSE)
    \/ Alive /\ \E p \in FsPaths :
                   \E F \in SUBSET {q \in {p} : Exists(State, q)} : remove_temp(TRUE, p, F)
    \/ Alive /\ \E l \in RemoveLists :
                   \E F \in SUBSET {q \in Range(l) : Exists(State, q)} : remove_temp(FALSE, l, F)

SpecRemoval == Init /\ [][NextRemoval]_vars

\* ------------------------------------------------------------- properties
PipelineOps ==
    {"cut", "replace_audio", "join", "insert_images", "insert_captions", "change_ratio"}

\* the paths _mktemp returned during the call that led to this state
AllocdPaths(a) == {a[i].path : i \in DOMAIN a}

\* the call wrote its output: an ffmpeg invocation on path p exited with code 0
Wrote(invs, p) == \E i \in DOMAIN invs : invs[i].tool = "ffmpeg" /\ invs[i].out = p /\ invs[i].ok

\* C1 (as stated): cleanup() never deletes a file at an output path the caller
\* supplied explicitly: a file that exists there before cleanup() exists after it.
C1_ExplicitOutputSurvivesCleanup ==
    [][last'.op = "cleanup" =>
          \A p \in ExplicitOuts : fs[p] # "absent" => fs'[p] # "absent"]_vars

\* C2 (as stated): after an operation returns successfully its output path is
\* tracked if and only if the caller gave no explicit output path.
C2_OutputTrackedIffGenerated ==
    (last.op \in PipelineOps /\ last.res = "ok")
        => (last.out \in _temp_files <=> ~last.explicit)

\* C3: no path is tracked after the editor removed its file: every file an action
\* deletes (one that existed before the call, or a temp file the call itself
\* allocated) is untracked when the action ends, so every tracked path exists.
C3_DeletedIsUntracked ==
    [][/\ \A p \in FsPaths : (fs[p] # "absent" /\ fs'[p] = "absent") => p \notin _temp_files'
       /\ \A i \in DOMAIN allocd' :
             allocd'[i].holds = "absent" => allocd'[i].path \notin _temp_files'
       /\ \A p \in _temp_files' : fs'[p] # "absent"]_vars

\* an operation deleted a temp file it had allocated, while another path stays tracked
C3_Witness ==
    /\ last.op = "insert_images"
    /\ \E i \in DOMAIN allocd : allocd[i].holds = "absent"
    /\ _temp_files # {}

\* C4 (as stated): remove_temp never raises and afterwards every given path is
\* untracked, also when the deletion of its file failed.
C4_RemoveTempUntracksAll ==
    [][last'.op = "remove_temp" =>
          \A l \in RemoveLists :
              (\E F \in SUBSET Range(l) : remove_temp(FALSE, l, F))
                  => (last'.res = "ok" /\ \A p \in Range(l) : p \notin _temp_files')]_vars

\* C5 (as stated): after cleanup() the tracked set is empty and the workspace
\* directory is gone if and only if the editor created it.
C5_Original ==
    last.op = "cleanup" => (_temp_files = {} /\ (temp_dir \notin dirs <=> _own_temp))

\* C5 (amended): after cleanup() the tracked set is empty, also when deletions
\* failed; a caller-supplied workspace directory is still there; a directory the
\* editor created is gone unless shutil.rmtree raised (which cleanup swallows).
C5_CleanupEmptiesAndRemovesOwnDir ==
    last.op = "cleanup" =>
        /\ _temp_files = {}
        /\ ~_own_temp => temp_dir \in dirs
        /\ (_own_temp /\ "rmtree_failed" \notin last.notes) => temp_dir \notin dirs

\* a cleanup() during which the deletion of a tracked file failed
C5_Witness ==
    /\ last.op = "cleanup"
    /\ "remove_failed" \in last.notes
    /\ \E p \in TempPaths : fs[p] # "absent"

\* C6 (as stated): a cleanup() directly after a cleanup() raises nothing and
\* changes neither the tracked set nor the file system.
C6_Original ==
    [][(last.op = "cleanup" /\ last'.op = "cleanup")
          => (last'.res = "ok" /\ UNCHANGED <<fs, dirs, _temp_files>>)]_vars

\* C6 (amended): a cleanup() directly after a cleanup() raises nothing and leaves
\* the tracked set unchanged; it leaves the file system unchanged too unless the
\* editor owns a workspace directory that the first call failed to remove.
C6_SecondCleanupIsNoOp ==
    [][(last.op = "cleanup" /\ last'.op = "cleanup")
          => /\ last'.res = "ok"
             /\ UNCHANGED _temp_files
             /\ (~_own_temp \/ temp_dir \notin dirs) => UNCHANGED <<fs, dirs>>]_vars

\* a second cleanup() in a row, with a file of the workspace still on disk
C6_Witness ==
    /\ last.op = "cleanup"
    /\ last.again
    /\ \E p \in TempPaths : fs[p] # "absent"

\* C7: every path _mktemp returns lies in the workspace directory, did not exist
\* and was not tracked before the call, and differs from every other path
\* allocated while it exists; it is created empty (it holds nothing until ffmpeg
\* or image.save writes it) and is tracked for as long as its file exists; the
\* tracked set grows by nothing but allocated paths and the call's output path.
C7_MktempFreshEmptyTracked ==
    [][/\ \A i \in DOMAIN allocd' :
             LET p == allocd'[i].path
             IN  /\ p.dir = temp_dir
                 /\ fs[p] = "absent"
                 /\ p \notin _temp_files
                 /\ \A j \in DOMAIN allocd' : j # i => allocd'[j].path # p
                 /\ allocd'[i].holds # "absent" => p \in _temp_files'
                 /\ (p = last'.out /\ ~Wrote(calls', p)) => allocd'[i].holds = "empty"
       /\ (_temp_files' \ _temp_files) \subseteq (AllocdPaths(allocd') \cup {last'.out})]_vars

\* an allocation made while an earlier temp file exists and is tracked
C7_Witness ==
    /\ Len(allocd) = 1
    /\ allocd[1].holds = "empty"
    /\ \E q \in _temp_files : q # allocd[1].path /\ q \in TempPaths /\ fs[q] # "absent"

\* C8 (as stated): every file the editor creates inside its workspace directory
\* is tracked from its creation on.
C8_CreatedInWorkspaceIsTracked ==
    [][\A p \in FsPaths :
          (p.dir = temp_dir /\ fs[p] = "absent" /\ fs'[p] # "absent") => p \in _temp_files']_vars

\* what join(inputs, output_path, reencode) may do, by the value of reencode
JoinInvocations(inputs, reencode, res, out, invs) ==
    LET n == Len(invs)
        strategies == [i \in 1..n |-> invs[i].strategy]
    IN  /\ \A i \in 1..n : invs[i].tool = "ffmpeg" /\ invs[i].ins = inputs /\ invs[i].out = out
        /\ n <= 2
        /\ \A i, j \in 1..n : i # j => strategies[i] # strategies[j]
        /\ IF reencode
           THEN /\ \A i \in 1..n : strategies[i] = "filter_concat"
                /\ n = 1 => (res = "ok" <=> invs[1].ok)
           ELSE /\ n >= 1 => strategies[1] = "copy_concat"
                /\ (n = 2) <=> (n >= 1 /\ ~invs[1].ok)
                /\ n = 2 => /\ strategies[2] = "filter_concat"
                            /\ res = (IF invs[2].ok THEN "ok" ELSE "RuntimeError")
        /\ res = "ok" => \E i \in 1..n : invs[i].ok

\* C9: join with reencode=False first makes the stream-copy invocation and, if and
\* only if that exits non-zero, exactly one re-encode invocation on the same inputs
\* and output path, whose failure is raised to the caller; with reencode=True it
\* makes no stream-copy invocation; at most two invocations, no strategy twice.
\* (A join that raises before reaching ffmpeg makes no invocation at all.)
C9_JoinFallback ==
    [][last'.op = "join" =>
          \A l \in JoinLists, o \in OutArgs, re \in BOOLEAN :
              join(l, o, re) => JoinInvocations(l, re, last'.res, last'.out, calls')]_vars

\* a join whose stream copy failed and whose re-encode then succeeded
C9_Witness ==
    /\ last.op = "join"
    /\ Len(calls) = 2
    /\ calls[1].strategy = "copy_concat" /\ ~calls[1].ok
    /\ calls[2].strategy = "filter_concat" /\ calls[2].ok
    /\ last.res = "ok"

\* C10: join with fewer than two inputs raises ValueError with no external
\* invocation made, no temp file allocated and no directory or file created.
C10_JoinTooFewInputs ==
    [][(last'.op = "join" /\ Len(last'.paths) < 2)
          => /\ last'.res = "ValueError"
             /\ calls' = <<>>
             /\ allocd' = <<>>
             /\ UNCHANGED <<fs, dirs, _temp_files>>]_vars

\* a join with one input and an explicit output path whose directory does not exist
C10_Witness ==
    /\ last.op = "join"
    /\ Len(last.paths) = 1
    /\ last.explicit
    /\ last.res = "ValueError"
    /\ \A p \in ExplicitOuts : p.dir \notin dirs

\* C11 (as stated): change_ratio with an unsupported ratio keyword, an invalid
\* mode, an invalid color or an invalid style type raises ValueError and spawns
\* no external process.
C11_RatioArgsValidated ==
    [][last'.op = "change_ratio" =>
          \A r \in RatioArgs, ms \in ModeStyleArgs, o \in OutArgs, w \in WidthArgs,
             re \in ReencodeArgs :
              (change_ratio(video, r, ms[1], ms[2], o, w, re)
                  /\ (r \notin Ratios \/ StyleInvalid(ms[1], ms[2])))
                  => (last'.res = "ValueError" /\ calls' = <<>>)]_vars

\* the places of the ffmpeg and of the ffprobe invocations among those of a call
Ffmpegs(invs) == {i \in DOMAIN invs : invs[i].tool = "ffmpeg"}

Ffprobes(invs) == {i \in DOMAIN invs : invs[i].tool = "ffprobe"}

\* C12: replace_audio with start_time at or beyond the video's duration makes, once
\* both probes have succeeded, exactly one ffmpeg invocation, which maps only the
\* video stream, disables audio, has no filter graph and does not take the audio
\* file as an input; the call returns normally when that invocation exits with 0.
C12_NoAudioBeyondEnd ==
    [][last'.op = "replace_audio" =>
          \A v \in VideoArgsWide, a \in AudioArgsWide, o \in ExplicitOuts, st \in StartArgsWide :
              (st >= v.duration /\ replace_audio(v, a, o, st))
                  => /\ Cardinality(Ffmpegs(calls')) <= 1
                     /\ (\A i \in Ffprobes(calls') : calls'[i].ok) /\ Cardinality(Ffprobes(calls')) = 2
                           => Ffmpegs(calls') # {}
                     /\ last'.res = "ok" => Ffmpegs(calls') # {}
                     /\ \A i \in Ffmpegs(calls') :
                           /\ calls'[i].opts.maps = <<"0:v">>
                           /\ calls'[i].opts.an
                           /\ calls'[i].opts.filter = <<>>
                           /\ calls'[i].ins = <<v>>
                           /\ (last'.res = "ok") <=> calls'[i].ok]_vars

\* a replace_audio that returned an output without audio for a video of known duration
C12_Witness ==
    /\ last.op = "replace_audio"
    /\ last.res = "ok"
    /\ Len(calls) = 3
    /\ calls[3].opts.an
    /\ calls[1].ins[1].duration > 0

\* the size change_ratio asks ffmpeg for: the arguments of its crop or pad filter
RequestedSize(opts) ==
    LET i == CHOOSE j \in DOMAIN opts.filter : opts.filter[j].name \in {"crop", "pad"}
    IN  opts.filter[i].args

\* (w, h) is the target pair of a ratio keyword and a width argument: w is the
\* width (1080 for None), h is w * ratio_h / ratio_w with its fraction cut off
IsTarget(w, h, ratio, width) ==
    LET rw == IF ratio = "vertical" THEN 9 ELSE IF ratio = "widescreen" THEN 16 ELSE 21
        rh == IF ratio = "vertical" THEN 16 ELSE 9
    IN  /\ w = (IF width = <<>> THEN 1080 ELSE width[1])
        /\ h * rw <= w * rh
        /\ w * rh < (h + 1) * rw

\* C13 (as stated): in pad mode and in crop mode change_ratio asks ffmpeg for
\* exactly the target pair, for every ratio keyword and width.
C13_Original ==
    [][last'.op = "change_ratio" =>
          \A r \in Ratios, ms \in ModeStyleArgs, o \in ExplicitOuts, w \in WidthArgsWide,
             re \in BOOLEAN :
              (calls' # <<>> /\ change_ratio(video, r, ms[1], ms[2], o, w, re))
                  => IsTarget(RequestedSize(calls'[1].opts)[1],
                              RequestedSize(calls'[1].opts)[2], r, w)]_vars

\* C13 (amended): change_ratio asks ffmpeg for exactly the target pair in crop mode,
\* in pad mode with blur, and in pad mode with a color when the target is taller
\* than wide; in pad mode with a color and a target at least as wide as tall it
\* asks for the target pair with each odd dimension lowered by one.
C13_RequestedSize ==
    [][last'.op = "change_ratio" =>
          \A r \in Ratios, ms \in ModeStyleArgs, o \in ExplicitOuts, w \in WidthArgsWide,
             re \in BOOLEAN :
              (calls' # <<>> /\ change_ratio(video, r, ms[1], ms[2], o, w, re))
                  => LET size == RequestedSize(calls'[1].opts)
                         color == ms[1] = "pad" /\ ms[2] # "blur"
                         tw == IF w = <<>> THEN 1080 ELSE w[1]
                         th == (tw * RatioPair(r)[2]) \div RatioPair(r)[1]
                     IN  /\ IsTarget(tw, th, r, w)
                         /\ IF color /\ tw >= th
                            THEN size = <<tw - (tw % 2), th - (th % 2)>>
                            ELSE size = <<tw, th>>]_vars

\* a widescreen pad with a color at the default width: 1080 by 606 is asked for
C13_Witness ==
    /\ last.op = "change_ratio"
    /\ Len(calls) = 1
    /\ \E i \in DOMAIN calls[1].opts.filter :
          calls[1].opts.filter[i] = Filter("pad", <<1080, 606>>)

\* C14: an operation returns only if its last external invocation exited with code
\* 0, and an invocation that exits non-zero ends the operation with RuntimeError,
\* but for the stream copy of join, after which join goes on to the re-encode.
C14_NonZeroExitRaises ==
    last.op \in PipelineOps =>
        /\ last.res = "ok" => (Len(calls) > 0 /\ calls[Len(calls)].ok)
        /\ \A i \in DOMAIN calls :
              ~calls[i].ok =>
                  \/ last.op = "join" /\ calls[i].strategy = "copy_concat" /\ i < Len(calls)
                  \/ last.res = "RuntimeError" /\ i = Len(calls)

\* a replace_audio that raised because the probe of the audio file failed
C14_Witness ==
    /\ last.op = "replace_audio"
    /\ last.res = "RuntimeError"
    /\ Len(calls) = 2
    /\ calls[1].ok /\ ~calls[2].ok

\* C15: when ffmpeg or ffprobe is missing, VideoEditor(...) raises before it makes
\* a workspace directory or sets any attribute, and no call ever follows on the
\* editor that was not built.
C15_MissingBinaryStopsConstruction ==
    [][/\ last'.op = "__init__" =>
             \A given \in BOOLEAN, found \in SUBSET Binaries :
                 (__init__(given, found) /\ found # Binaries)
                     => /\ last'.res = "RuntimeError"
                        /\ UNCHANGED <<fs, dirs, _own_temp, _temp_files>>
                        /\ dirs' = {}
       /\ ~(last.op = "__init__" /\ last.res # "ok")]_vars

\* a construction that failed, with no directory on disk
C15_Witness ==
    /\ last.op = "__init__"
    /\ last.res = "RuntimeError"
    /\ dirs = {}

\* C16 (as stated): insert_captions given a caption whose start is at or after its
\* end raises ValueError and spawns no external process.
C16_CaptionWindowValidated ==
    [][last'.op = "insert_captions" =>
          \A c \in CaptionArgsWide, o \in ExplicitOuts :
              ((\E i \in DOMAIN c : c[i].start >= c[i].end) /\ insert_captions(video, c, o))
                  => (last'.res = "ValueError" /\ calls' = <<>>)]_vars

\* the product of the stages of a tempo chain, as a fraction
RECURSIVE ChainProduct(_)
ChainProduct(stages) ==
    IF Len(stages) = 0 THEN <<1, 1>>
    ELSE <<Head(stages)[1] * ChainProduct(Tail(stages))[1],
           Head(stages)[2] * ChainProduct(Tail(stages))[2]>>

\* C17: for every speed factor f the stages of the atempo chain all lie in
\* [1/2, 2], none of them is 1, their product is f, and the chain is empty (no
\* audio filter) exactly when f is 1.
C17_TempoChain ==
    [][last'.op = "change_speed_segment" =>
          \A f \in SpeedArgs :
              change_speed_segment(video, f)
                  => LET chain == calls'[1].opts.filter
                         stages == [i \in DOMAIN chain |-> chain[i].args[1]]
                     IN  /\ \A i \in DOMAIN chain :
                               /\ chain[i].name = "atempo"
                               /\ 2 * stages[i][1] >= stages[i][2]
                               /\ stages[i][1] <= 2 * stages[i][2]
                               /\ stages[i][1] # stages[i][2]
                         /\ ChainProduct(stages)[1] * f[2] = ChainProduct(stages)[2] * f[1]
                         /\ (Len(chain) = 0) <=> (f[1] = f[2])]_vars

\* a speed change whose factor needed three stages or more
C17_Witness ==
    /\ last.op = "change_speed_segment"
    /\ Len(calls[1].opts.filter) >= 3

\* C18 (as stated): an operation that returns has issued exactly one external
\* invocation, or two when it is a join whose stream copy failed.
C18_Original ==
    (last.op \in PipelineOps /\ last.res = "ok")
        => \/ Len(calls) = 1
           \/ last.op = "join" /\ Len(calls) = 2 /\ ~calls[1].ok

\* C18 (amended): an operation issues at most one ffmpeg invocation, and exactly
\* one when it returns, except join, which issues a second one exactly when its
\* stream copy failed; replace_audio issues before it one ffprobe invocation for
\* the video and one for the audio, and no other operation probes; an operation
\* that raises before it reaches the tool issues none.  The invocations of a call
\* are made one after the other.
C18_InvocationsPerCall ==
    last.op \in PipelineOps =>
        LET ff == Ffmpegs(calls)
            pr == Ffprobes(calls)
        IN  /\ IF last.op = "join" /\ \E i \in ff : ~calls[i].ok /\ calls[i].strategy = "copy_concat"
               THEN Cardinality(ff) = 2
               ELSE Cardinality(ff) <= 1
            /\ last.res = "ok" => Cardinality(ff) >= 1
            /\ last.op # "replace_audio" => pr = {}
            /\ Cardinality(pr) <= 2
            /\ \A i \in pr, j \in ff : i < j
            /\ ff # {} /\ last.op = "replace_audio"
                  => /\ pr = {1, 2}
                     /\ calls[1].ins[1].kind = "in" /\ calls[2].ins[1].kind = "audio"
                     /\ calls[1].ok /\ calls[2].ok

\* a replace_audio that returned after two probes and one ffmpeg invocation
C18_Witness ==
    /\ last.op = "replace_audio"
    /\ last.res = "ok"
    /\ Len(calls) = 3
    /\ ~calls[3].opts.an

C20_UnknownDurationKeepsAudio ==
    [][last'.op = "replace_audio" =>
          \A v \in VideoArgsWide, a \in AudioArgsWide, o \in ExplicitOuts :
              (v.duration = 0 /\ Ffmpegs(calls') # {} /\ replace_audio(v, a, o, 0))
                  => (~calls'[3].opts.an /\ calls'[3].ins = <<v, a>>)]_vars

\* the arguments of the first filter of that name in a filter graph
FilterArgs(opts, name) ==
    LET i == CHOOSE j \in DOMAIN opts.filter :
                 /\ opts.filter[j].name = name
                 /\ \A k \in DOMAIN opts.filter : opts.filter[k].name = name => j <= k
    IN  opts.filter[i].args

\* the styles that make the pad a solid color: none given, "black", a "#RRGGBB"
ColorStyles == {"None", "color:black", "color:#1e8c1b"}

\* C21: in pad mode with a solid color the scale and the pad filter carry the same
\* dimensions; these are the target width and height, each lowered by one if odd,
\* when the target width is at least the target height, and the target width and
\* height as they are when the target width is below the target height.
C21_EvenAdjustment ==
    [][last'.op = "change_ratio" =>
          \A r \in Ratios, st \in ColorStyles, o \in ExplicitOuts, w \in WidthArgsWide,
             re \in BOOLEAN :
              (calls' # <<>> /\ change_ratio(video, r, "pad", st, o, w, re))
                  => LET tw == IF w = <<>> THEN 1080 ELSE w[1]
                         th == (tw * RatioPair(r)[2]) \div RatioPair(r)[1]
                         scale == FilterArgs(calls'[1].opts, "scale")
                         pad == FilterArgs(calls'[1].opts, "pad")
                     IN  /\ [i \in DOMAIN calls'[1].opts.filter |->
                                calls'[1].opts.filter[i].name] = <<"scale", "pad">>
                         /\ scale = pad
                         /\ IF tw >= th
                            THEN pad = <<tw - (tw % 2), th - (th % 2)>>
                            ELSE pad = <<tw, th>>]_vars

\* a widescreen pad of width 21: the target 21 by 11 is asked for as 20 by 10
C21_Witness ==
    /\ last.op = "change_ratio"
    /\ Len(calls) = 1
    /\ calls[1].opts.filter = <<Filter("scale", <<20, 10>>), Filter("pad", <<20, 10>>)>>

\* C22: insert_images with N >= 1 images makes one ffmpeg invocation with one
\* filter graph of N overlay stages in the order of the list: stage k reads the
\* label the stage before it wrote (the base video "0:v" for k = 1) and the video
\* of input k, writes the label v<k> and is enabled between the k-th image's start
\* and end; the label v<N> of the last stage is the one mapped to the output.
C22_OverlayChain ==
    [][last'.op = "insert_images" =>
          \A im \in ImageListsWide, o \in ExplicitOuts :
              (Len(im) >= 1 /\ insert_images(video, im, o))
                  => /\ Len(calls') = 1
                     /\ calls'[1].tool = "ffmpeg"
                     /\ LET N == Len(im)
                            g == calls'[1].opts.filter
                        IN  /\ Len(g) = N
                            /\ Len(calls'[1].ins) = N + 1
                            /\ calls'[1].ins[1] = video
                            /\ \A k \in 1..N :
                                  /\ g[k].name = "overlay"
                                  /\ g[k].ins[1] = (IF k = 1 THEN StreamV(0) ELSE g[k - 1].out)
                                  /\ g[k].ins[2] = StreamV(k)
                                  /\ g[k].out = OutLabel(k)
                                  /\ g[k].enable = <<im[k].start, im[k].end>>
                            /\ calls'[1].opts.maps = <<OutLabel(N)>>]_vars

\* two images with windows of their own, the second one decoded: two stages
C22_Witness ==
    /\ last.op = "insert_images"
    /\ last.res = "ok"
    /\ Len(calls) = 1
    /\ Len(calls[1].opts.filter) = 2
    /\ calls[1].opts.filter[1].enable # calls[1].opts.filter[2].enable
    /\ calls[1].ins[3].dir = temp_dir

\* C23: insert_captions with N captions makes one ffmpeg invocation whose filter
\* is the chain of exactly N drawtext filters in the order of the list, the k-th
\* enabled between the k-th caption's start and end as they were given.
C23_CaptionChain ==
    [][last'.op = "insert_captions" =>
          \A c \in CaptionArgsWide, o \in ExplicitOuts :
              insert_captions(video, c, o)
                  => /\ Len(calls') = 1
                     /\ calls'[1].tool = "ffmpeg"
                     /\ calls'[1].ins = <<video>>
                     /\ LET g == calls'[1].opts.filter
                        IN  /\ Len(g) = Len(c)
                            /\ \A k \in 1..Len(c) :
                                  /\ g[k].name = "drawtext"
                                  /\ g[k].args = <<c[k].start, c[k].end>>]_vars

\* two captions with different windows burnt in by one invocation
C23_Witness ==
    /\ last.op = "insert_captions"
    /\ last.res = "ok"
    /\ Len(calls) = 1
    /\ Len(calls[1].opts.filter) = 2
    /\ calls[1].opts.filter[1].args # calls[1].opts.filter[2].args

\* the temp images of the insert_images call that led to this state: the paths it
\* allocated other than its output path, each with what it holds at the end
TempImages(a, out) == {i \in DOMAIN a : a[i].path # out}

SelectorParams(params) ==
    /\ Len(params) = 1
    /\ params[1].preset = "fast"
    /\ params[1].crf = 23
    /\ params[1].threads >= 1

\* C25 (as stated): every ffmpeg invocation that re-encodes the video (its -c:v is
\* not "copy") carries the codec and the parameters _choose_encoder returned, the
\* call having asked _choose_encoder exactly once.
C25_EncoderFromSelector ==
    \A i \in DOMAIN calls :
        (calls[i].tool = "ffmpeg" /\ calls[i].enc.codec # "copy")
            => /\ calls[i].enc.selects = 1
               /\ calls[i].enc.codec = "libx264"
               /\ SelectorParams(calls[i].enc.params)

\* C26 (as stated): a change_ratio or a join that raises ValueError leaves the
\* tracked set, the files and the directories as they were before the call.
C26_ValidationLeavesNoTrace ==
    [][(last'.op \in {"change_ratio", "join"} /\ last'.res = "ValueError")
          => UNCHANGED <<fs, dirs, _temp_files>>]_vars

\* C27: no pipeline operation untracks or deletes a path that was tracked before
\* the call: the tracked set after it includes the tracked set before it, and a
\* tracked file that existed before it exists after it.
C27_TrackedSetGrows ==
    [][last'.op \in PipelineOps =>
          /\ _temp_files \subseteq _temp_files'
          /\ \A p \in _temp_files : fs[p] # "absent" => fs'[p] # "absent"]_vars

\* an insert_images that deleted its own temp image while the temp output of an
\* earlier operation is still on disk and tracked
C27_Witness ==
    /\ last.op = "insert_images"
    /\ last.res = "ok"
    /\ \E i \in TempImages(allocd, last.out) : allocd[i].holds = "absent"
    /\ \E q \in _temp_files :
          q \notin AllocdPaths(allocd) /\ q # last.out /\ fs[q] # "absent"

\* an operation ended with the RuntimeError of a failed external invocation
FailedRun(l) == l.op \in PipelineOps /\ l.res = "RuntimeError"

\* C28 (as stated): after an operation whose external invocation failed, every
\* temp file it allocated is tracked, and after a cleanup() that follows none of
\* them is left on disk.
C28_Original ==
    [][/\ FailedRun(last') => \A i \in DOMAIN allocd' : allocd'[i].path \in _temp_files'
       /\ (FailedRun(last) /\ last'.op = "cleanup")
             => \A i \in DOMAIN allocd : fs'[allocd[i].path] = "absent"]_vars

\* C28 (amended): after an operation whose external invocation failed, every temp
\* file it allocated is on disk and tracked; a cleanup() that follows empties the
\* tracked set and leaves none of those files on disk but the ones whose deletion
\* raised.
C28_FailedCallStaysTracked ==
    [][/\ FailedRun(last') =>
             \A i \in DOMAIN allocd' :
                 allocd'[i].holds # "absent" /\ allocd'[i].path \in _temp_files'
       /\ (FailedRun(last) /\ last'.op = "cleanup")
             => /\ _temp_files' = {}
                /\ \A F \in SUBSET {p \in _temp_files : fs[p] # "absent"}, ok \in BOOLEAN :
                      \A K \in SUBSET FilesIn(cleanup_files(State, F), temp_dir) :
                          cleanup(F, ok, K)
                              => \A i \in DOMAIN allocd :
                                    allocd[i].path \notin F
                                        => fs'[allocd[i].path] = "absent"]_vars

\* an insert_images whose ffmpeg failed, with its output file and the temp file of
\* a decoded image both allocated
C28_Witness ==
    /\ last.op = "insert_images"
    /\ last.res = "RuntimeError"
    /\ Len(allocd) = 2
    /\ \A i \in DOMAIN allocd : allocd[i].path \in _temp_files

\* the editor made its workspace directory itself and the directory is gone
WorkspaceGone == _own_temp /\ temp_dir \notin dirs

====
